---- MODULE Spec2Model ----
(***************************************************************************)
(* A model of the texture-atlas packer of Tilers/CityTiler/atlas.py: the   *)
(* binary tree of rectangles (Rectangle, Node.insert), the build/retry     *)
(* loop of computeAtlasTree, and the atlas assembly with its UV rewrite    *)
(* (Node.createAtlasImage, Node.fillAtlasImage, Node.updateUv).            *)
(***************************************************************************)
EXTENDS Integers, Sequences, FiniteSets, TLC

(* ------------------------------ bounds --------------------------------- *)
\* Largest width and height of an input texture.
MaxDim == 3
\* Largest number of textures of one tile.
MaxImages == 3
\* Largest number of textures of a tile in the runs that are checked for
\* termination and in the runs that go on to assemble the atlas image.
MaxFewImages == 2
\* Largest width and height of a texture in the runs that are checked for
\* termination.
MaxLiveDim == 2
\* Largest number of passes of the build/retry loop (the loop of the code
\* is unbounded).
MaxPasses == 6
\* Largest width and height of the canvas of a tree that is inserted into
\* directly, and the largest number of such calls.
MaxCanvas == 4
MaxCalls == 4
\* Largest width and height of a texture, and largest number of textures,
\* of a tile whose build runs interleaved with the build of another tile.
MaxTileDim == 2
MaxTileImages == 1
\* Largest number of rows the geometry query of a tile returns.
MaxRows == 2

(* ------------------------------ values --------------------------------- *)
\* Python's None, for an absent child, image, building_id or node_root.
None == [none |-> TRUE]

\* A pillow image: its size and the texture it holds (the key of its pixels).
Image(w, h, k) == [size |-> <<w, h>>, data |-> k]

\* The identifier of a city object, the key of its texture and of its UVs.
Key(i) == [id |-> i]

(* ----------------------------- Rectangle ------------------------------- *)
Rectangle(left, top, right, bottom) ==
    [left |-> left, right |-> right, top |-> top, bottom |-> bottom,
     width |-> right - left, height |-> bottom - top]

\* fits with < in the place of <=.
fitsStrict(self, img) ==
    LET imageWidth == img.size[1]
        imageHeight == img.size[2]
    IN  imageWidth < self.width /\ imageHeight < self.height

fits(self, img) ==
    LET imageWidth == img.size[1]
        imageHeight == img.size[2]
    IN  imageWidth <= self.width /\ imageHeight <= self.height

\* perfect_fits with the heights not compared.
perfect_fitsWidthOnly(self, img) ==
    LET imageWidth == img.size[1]
    IN  imageWidth = self.width

\* Lines 61-68.
perfect_fits(self, img) ==
    LET imageWidth == img.size[1]
        imageHeight == img.size[2]
    IN  imageWidth = self.width /\ imageHeight = self.height

(* -------------------------------- Node --------------------------------- *)
Node(rect) ==
    [rect |-> rect, child |-> <<None, None>>, image |-> None,
     building_id |-> None]

isLeaf(self) == self.child[1] = None /\ self.child[2] = None

\* SplitRects with the second child starting one pixel early, inside the
\* first.
SplitRectsOverlapping(rect, width, height) ==
    LET dw == rect.width - width
        dh == rect.height - height
    IN  IF dw >= dh
        THEN << Rectangle(rect.left, rect.top, rect.left + width, rect.bottom),
                Rectangle(rect.left + width - 1, rect.top,
                          rect.right, rect.bottom) >>
        ELSE << Rectangle(rect.left, rect.top, rect.right, rect.top + height),
                Rectangle(rect.left, rect.top + height - 1,
                          rect.right, rect.bottom) >>

\* SplitRects with the second child starting two pixels past the first.
SplitRectsWideGutter(rect, width, height) ==
    LET dw == rect.width - width
        dh == rect.height - height
    IN  IF dw >= dh
        THEN << Rectangle(rect.left, rect.top, rect.left + width, rect.bottom),
                Rectangle(rect.left + width + 2, rect.top,
                          rect.right, rect.bottom) >>
        ELSE << Rectangle(rect.left, rect.top, rect.right, rect.top + height),
                Rectangle(rect.left, rect.top + height + 2,
                          rect.right, rect.bottom) >>

\* SplitRects with the rectangle of the second child not set when the split
\* is the one of dw < dh.
SplitRectsSecondUnset(rect, width, height) ==
    LET dw == rect.width - width
        dh == rect.height - height
    IN  IF dw >= dh
        THEN << Rectangle(rect.left, rect.top, rect.left + width, rect.bottom),
                Rectangle(rect.left + width + 1, rect.top,
                          rect.right, rect.bottom) >>
        ELSE << Rectangle(rect.left, rect.top, rect.right, rect.top + height),
                None >>

\* SplitRects with the tie dw = dh going to the split of dw < dh.
SplitRectsTieBreak(rect, width, height) ==
    LET dw == rect.width - width
        dh == rect.height - height
    IN  IF dw > dh
        THEN << Rectangle(rect.left, rect.top, rect.left + width, rect.bottom),
                Rectangle(rect.left + width + 1, rect.top,
                          rect.right, rect.bottom) >>
        ELSE << Rectangle(rect.left, rect.top, rect.right, rect.top + height),
                Rectangle(rect.left, rect.top + height + 1,
                          rect.right, rect.bottom) >>

\* SplitRects with the first child one pixel short of the image.
SplitRectsShortFirst(rect, width, height) ==
    LET dw == rect.width - width
        dh == rect.height - height
    IN  IF dw >= dh
        THEN << Rectangle(rect.left, rect.top,
                          rect.left + width - 1, rect.bottom),
                Rectangle(rect.left + width + 1, rect.top,
                          rect.right, rect.bottom) >>
        ELSE << Rectangle(rect.left, rect.top,
                          rect.right, rect.top + height - 1),
                Rectangle(rect.left, rect.top + height + 1,
                          rect.right, rect.bottom) >>

\* The two child rectangles of a leaf split for an image of size
\* width x height: the two consecutive ifs of the code, in their order.
SplitRects(rect, width, height) ==
    LET dw == rect.width - width
        dh == rect.height - height
        first == IF dw >= dh
                 THEN << Rectangle(rect.left, rect.top,
                                   rect.left + width, rect.bottom),
                         Rectangle(rect.left + width + 1, rect.top,
                                   rect.right, rect.bottom) >>
                 ELSE << None, None >>
    IN  IF dw < dh
        THEN << Rectangle(rect.left, rect.top,
                          rect.right, rect.top + height),
                Rectangle(rect.left, rect.top + height + 1,
                          rect.right, rect.bottom) >>
        ELSE first

\* insert without the test of line 110: a leaf that holds an image takes the
\* next image that fits it perfectly.
RECURSIVE insertOverwriting(_, _, _)
insertOverwriting(self, img, building_id) ==
    IF ~isLeaf(self)
    THEN LET newNode == insertOverwriting(self.child[1], img, building_id)
         IN  IF newNode # None
             THEN [self EXCEPT !.child[1] = newNode]
             ELSE LET newNode2 ==
                          insertOverwriting(self.child[2], img, building_id)
                  IN  IF newNode2 # None
                      THEN [self EXCEPT !.child[2] = newNode2]
                      ELSE None
    ELSE IF perfect_fits(self.rect, img)
         THEN [self EXCEPT !.building_id = building_id, !.image = img]
    ELSE IF ~fits(self.rect, img) \/ self.image # None THEN None
    ELSE LET rects == SplitRects(self.rect, img.size[1], img.size[2])
             child0 == Node(rects[1])
             child1 == Node(rects[2])
             placed == insertOverwriting(child0, img, building_id)
         IN  [self EXCEPT !.child = << IF placed # None THEN placed ELSE child0,
                                       child1 >>]

\* Node.insert: the node after the call when the image was placed under it,
\* None when it was not (a failed call changes nothing).
RECURSIVE insert(_, _, _)
insert(self, img, building_id) ==
    IF ~isLeaf(self)
    THEN LET newNode == insert(self.child[1], img, building_id)
         IN  IF newNode # None
             THEN [self EXCEPT !.child[1] = newNode]
             ELSE LET newNode2 == insert(self.child[2], img, building_id)
                  IN  IF newNode2 # None
                      THEN [self EXCEPT !.child[2] = newNode2]
                      ELSE None
    ELSE IF self.image # None THEN None
    ELSE IF perfect_fits(self.rect, img)
         THEN [self EXCEPT !.building_id = building_id, !.image = img]
    ELSE IF ~fits(self.rect, img) THEN None
    ELSE LET rects == SplitRects(self.rect, img.size[1], img.size[2])
             child0 == Node(rects[1])
             child1 == Node(rects[2])
             \* the return value of this call is not looked at by the code
             placed == insert(child0, img, building_id)
         IN  [self EXCEPT !.child = << IF placed # None THEN placed ELSE child0,
                                       child1 >>]

\* The test of line 110 left out: no leaf counts as holding an image.
hasImageNever(self) == FALSE

\* Line 110: the node already has an image.
hasImage(self) == self.image # None

\* insert with the second child of an internal node tried before the first.
RECURSIVE insertInPlaceSecondFirst(_, _, _)
insertInPlaceSecondFirst(self, img, building_id) ==
    IF ~isLeaf(self)
    THEN LET second == insertInPlaceSecondFirst(self.child[2], img, building_id)
             self1 == [self EXCEPT !.child[2] = second.self]
         IN  IF second.ret # None
             THEN [ret |-> self1, self |-> self1]
             ELSE LET first == insertInPlaceSecondFirst(self.child[1], img,
                                                        building_id)
                      self2 == [self1 EXCEPT !.child[1] = first.self]
                  IN  IF first.ret # None
                      THEN [ret |-> self2, self |-> self2]
                      ELSE [ret |-> None, self |-> self2]
    ELSE IF hasImage(self) THEN [ret |-> None, self |-> self]
    ELSE IF perfect_fits(self.rect, img)
         THEN LET self1 == [self EXCEPT !.building_id = building_id,
                                        !.image = img]
              IN  [ret |-> self1, self |-> self1]
    ELSE IF ~fits(self.rect, img) THEN [ret |-> None, self |-> self]
    ELSE LET rects == SplitRects(self.rect, img.size[1], img.size[2])
             child0 == Node(rects[1])
             child1 == Node(rects[2])
             placed == insertInPlaceSecondFirst(child0, img, building_id)
             self1 == [self EXCEPT !.child = <<placed.self, child1>>]
         IN  [ret |-> self1, self |-> self1]

\* Node.insert as the call acts on the objects: ret is what the call
\* returns (the node, or None), self is the node as the call leaves it,
\* with every assignment the call and its recursive calls made.
RECURSIVE insertInPlace(_, _, _)
insertInPlace(self, img, building_id) ==
    IF ~isLeaf(self)
    THEN LET first == insertInPlace(self.child[1], img, building_id)
             self1 == [self EXCEPT !.child[1] = first.self]
         IN  IF first.ret # None
             THEN [ret |-> self1, self |-> self1]
             ELSE LET second == insertInPlace(self.child[2], img, building_id)
                      self2 == [self1 EXCEPT !.child[2] = second.self]
                  IN  IF second.ret # None
                      THEN [ret |-> self2, self |-> self2]
                      ELSE [ret |-> None, self |-> self2]
    ELSE IF hasImage(self) THEN [ret |-> None, self |-> self]
    ELSE IF perfect_fits(self.rect, img)
         THEN LET self1 == [self EXCEPT !.building_id = building_id,
                                        !.image = img]
              IN  [ret |-> self1, self |-> self1]
    ELSE IF ~fits(self.rect, img) THEN [ret |-> None, self |-> self]
    ELSE LET rects == SplitRects(self.rect, img.size[1], img.size[2])
             child0 == Node(rects[1])
             child1 == Node(rects[2])
             \* line 163: the call on the first child, its return value unused
             placed == insertInPlace(child0, img, building_id)
             self1 == [self EXCEPT !.child = <<placed.self, child1>>]
         IN  [ret |-> self1, self |-> self1]

(* --------------------------- tree observers ---------------------------- *)
\* The leaves of a tree, each with its path from the root.
RECURSIVE LeavesAt(_, _)
LeavesAt(node, path) ==
    IF isLeaf(node)
    THEN {[path |-> path, rect |-> node.rect, image |-> node.image,
           building_id |-> node.building_id]}
    ELSE LeavesAt(node.child[1], Append(path, 0))
         \cup LeavesAt(node.child[2], Append(path, 1))

Leaves(node) == IF node = None THEN {} ELSE LeavesAt(node, <<>>)

\* Every node of a tree: the node itself and the nodes below it.
RECURSIVE Nodes(_)
Nodes(node) ==
    IF node = None THEN {}
    ELSE IF isLeaf(node) THEN {node}
    ELSE {node} \cup Nodes(node.child[1]) \cup Nodes(node.child[2])

ImageLeaves(node) == {l \in Leaves(node) : l.image # None}

(* --------------------------- computeAtlasTree -------------------------- *)
computeArea(size) == size[1] * size[2]

\* sorted(items, key = area, reverse = True): a stable sort by descending
\* area, as the caller of the packer orders the textures of a tile.
\* The sort made by ascending area.
RECURSIVE InsertSortedAscending(_, _)
InsertSortedAscending(s, x) ==
    IF s = <<>> THEN <<x>>
    ELSE IF computeArea(Head(s)[2].size) <= computeArea(x[2].size)
         THEN <<Head(s)>> \o InsertSortedAscending(Tail(s), x)
         ELSE <<x>> \o s

RECURSIVE InsertSorted(_, _)
InsertSorted(s, x) ==
    IF s = <<>> THEN <<x>>
    ELSE IF computeArea(Head(s)[2].size) >= computeArea(x[2].size)
         THEN <<Head(s)>> \o InsertSorted(Tail(s), x)
         ELSE <<x>> \o s

RECURSIVE SortedByArea(_)
SortedByArea(items) ==
    IF items = <<>> THEN <<>>
    ELSE InsertSorted(SortedByArea(SubSeq(items, 1, Len(items) - 1)),
                      items[Len(items)])

RECURSIVE SumAreas(_)
SumAreas(textures) ==
    IF textures = <<>> THEN 0
    ELSE computeArea(Head(textures)[2].size) + SumAreas(Tail(textures))

\* np.sqrt(n), kept exact: the value whose square is n.
Sqrt(n) == [radicand |-> n]
\* i <= nb in the place of i < nb.
LessOrEqualSqrt(i, nb) == i * i <= nb.radicand

\* i < nb for an integer i >= 0 and nb a square root.
LessThanSqrt(i, nb) == i * i < nb.radicand

RECURSIVE multipleOf2From(_, _)
multipleOf2From(i, nb) ==
    IF LessThanSqrt(i, nb) THEN multipleOf2From(i * 2, nb) ELSE i

\* The first value of i in multipleOf2, the least side of a canvas.
MinSide == 1

\* multipleOf2 with i starting at 2.
multipleOf2FromTwo(nb) == multipleOf2From(2 * MinSide, nb)

multipleOf2(nb) == multipleOf2From(MinSide, nb)

\* The canvas grown in its width alone.
GrownRectWide(rect) == Rectangle(0, 0, rect.width * 2, rect.height)

\* The canvas grown four times instead of two.
GrownRectQuad(rect) == Rectangle(0, 0, rect.width * 4, rect.height * 4)

\* The canvas not grown at all.
GrownRectSame(rect) == Rectangle(0, 0, rect.width, rect.height)

\* The canvas of the next pass after a failed insertion.
GrownRect(rect) == Rectangle(0, 0, rect.width * 2, rect.height * 2)

(* ------------------------- floating point values ----------------------- *)
\* A float is kept as the exact value it stands for, m / 2^e, with m odd
\* unless e = 0.
RECURSIVE Dyadic(_, _)
Dyadic(m, e) ==
    IF m = 0 THEN [m |-> 0, e |-> 0]
    ELSE IF e > 0 /\ m % 2 = 0 THEN Dyadic(m \div 2, e - 1)
    ELSE [m |-> m, e |-> e]

RECURSIVE Pow2(_)
Pow2(k) == IF k = 0 THEN 1 ELSE 2 * Pow2(k - 1)

\* The powers of two that a canvas side or a divisor can be.
PowersOfTwo == {Pow2(k) : k \in 0..30}

Log2(n) == CHOOSE k \in 0..30 : Pow2(k) = n

FloatOfInt(n) == Dyadic(n, 0)

FloatMul(a, b) == Dyadic(a.m * b.m, a.e + b.e)

\* m * 2^k.
Shifted(m, k) == IF m = 0 THEN 0 ELSE m * Pow2(k)

FloatAdd(a, b) ==
    LET e == IF a.e >= b.e THEN a.e ELSE b.e
    IN  Dyadic(Shifted(a.m, e - a.e) + Shifted(b.m, e - b.e), e)

FloatNeg(a) == [m |-> 0 - a.m, e |-> a.e]

\* The significand of an IEEE single-precision float has 24 bits.
Float32Bits == 24

\* The least integer with a significand of 24 bits.
Float32Least == Pow2(Float32Bits - 1)

\* q with the remainder r of its division by d rounded away: to the nearest
\* integer, ties to even.
RoundedQuotient(q, r, d) ==
    IF 2 * r > d \/ (2 * r = d /\ q % 2 = 1) THEN q + 1 ELSE q

\* The positive integer m, of more than 24 bits, as k and the integer of 24
\* bits that m / 2^k rounds to.
RECURSIVE RoundedDown(_, _)
RoundedDown(m, k) ==
    IF m \div Pow2(k) < 2 * Float32Least
    THEN << RoundedQuotient(m \div Pow2(k), m % Pow2(k), Pow2(k)), k >>
    ELSE RoundedDown(m, k + 1)

\* The conversion of a float to np.float32: the nearest single-precision
\* float (the values met here are positive and within its exponent range).
float32(a) ==
    IF a.m < 2 * Float32Least THEN a
    ELSE LET s == RoundedDown(a.m, 1) IN Dyadic(s[1], a.e - s[2])

\* n / d (n, d > 0, the quotient below 2^24) doubled e times until its
\* integer part has 24 bits, then rounded to the nearest integer.
RECURSIVE RoundedUp(_, _, _)
RoundedUp(n, d, e) ==
    IF n \div d >= Float32Least
    THEN << RoundedQuotient(n \div d, n % d, d), e >>
    ELSE IF d % 2 = 0 THEN RoundedUp(n, d \div 2, e + 1)
         ELSE RoundedUp(2 * n, d, e + 1)

\* The single-precision float nearest to the quotient n / d.
float32OfQuotient(n, d) ==
    IF n = 0 THEN FloatOfInt(0)
    ELSE LET s == RoundedUp(n, d, 0) IN Dyadic(s[1], s[2])

\* a / b of two Python ints, a double: exact when b is a power of two, as
\* the side of every canvas is.
TrueDiv(a, b) == Dyadic(a, Log2(b))

\* A Python float (a double): exact on the values met here, which have
\* fewer than 53 bits.
float64(a) == a

\* One arithmetic step on floats: in single precision when the operands are
\* np.float32 scalars that stay np.float32, in double precision otherwise.
Rounded(arith, a) == IF arith = "float32" THEN float32(a) ELSE float64(a)

(* ------------------------------- updateUv ------------------------------ *)
\* updateUvPair with the offsets taken from the wrong sides of the rectangle.
updateUvPairSwapped(self, uv, oldTexture, newTexture, arith) ==
    LET ratioWidth == TrueDiv(oldTexture.size[1], newTexture.size[1])
        ratioHeight == TrueDiv(oldTexture.size[2], newTexture.size[2])
        offsetWidth == TrueDiv(self.rect.top, newTexture.size[1])
        offsetHeight == TrueDiv(self.rect.left, newTexture.size[2])
    IN  << float32(FloatAdd(FloatMul(uv[1], ratioWidth), offsetWidth)),
           float32(FloatAdd(FloatMul(uv[2], ratioHeight), offsetHeight)) >>

\* updateUvPair with the offsets taken from the right and bottom sides of the
\* rectangle.
updateUvPairFarSide(self, uv, oldTexture, newTexture, arith) ==
    LET ratioWidth == TrueDiv(oldTexture.size[1], newTexture.size[1])
        ratioHeight == TrueDiv(oldTexture.size[2], newTexture.size[2])
        offsetWidth == TrueDiv(self.rect.right, newTexture.size[1])
        offsetHeight == TrueDiv(self.rect.bottom, newTexture.size[2])
    IN  << float32(FloatAdd(FloatMul(uv[1], ratioWidth), offsetWidth)),
           float32(FloatAdd(FloatMul(uv[2], ratioHeight), offsetHeight)) >>

\* Lines 222-237 for one UV pair of one triangle.
updateUvPair(self, uv, oldTexture, newTexture, arith) ==
    LET oldWidth == oldTexture.size[1]
        oldHeight == oldTexture.size[2]
        newWidth == newTexture.size[1]
        newHeight == newTexture.size[2]
        ratioWidth == TrueDiv(oldWidth, newWidth)
        ratioHeight == TrueDiv(oldHeight, newHeight)
        offsetWidth == TrueDiv(self.rect.left, newWidth)
        offsetHeight == TrueDiv(self.rect.top, newHeight)
        new_u == Rounded(arith,
                   FloatAdd(Rounded(arith, FloatMul(uv[1], Rounded(arith, ratioWidth))),
                            Rounded(arith, offsetWidth)))
        new_v == Rounded(arith,
                   FloatAdd(Rounded(arith, FloatMul(uv[2], Rounded(arith, ratioHeight))),
                            Rounded(arith, offsetHeight)))
    IN  << float32(new_u), float32(new_v) >>

\* Node.updateUv: every pair of every triangle is rewritten.
updateUv(self, uvs, oldTexture, newTexture, arith) ==
    [i \in 1..Len(uvs) |->
        [y \in 1..3 |-> updateUvPair(self, uvs[i][y], oldTexture, newTexture, arith)]]

(* --------------------------- fillAtlasImage ---------------------------- *)
\* The colour of the pixel (x, y) of a texture.
SourcePixel(image, x, y) == [data |-> image.data, x |-> x, y |-> y]

Black == [data |-> 0, x |-> 0, y |-> 0]

\* Image.new('RGB', size, 'black').
NewImage(width, height) ==
    [size |-> <<width, height>>,
     px |-> [p \in (0..(width - 1)) \X (0..(height - 1)) |-> Black]]

\* paste with the box taken as (top, left).
pasteTransposed(atlasImg, image, box) ==
    [atlasImg EXCEPT !.px =
        [p \in DOMAIN atlasImg.px |->
            IF /\ box[2] <= p[1] /\ p[1] < box[2] + image.size[1]
               /\ box[1] <= p[2] /\ p[2] < box[1] + image.size[2]
            THEN SourcePixel(image, p[1] - box[2], p[2] - box[1])
            ELSE atlasImg.px[p]]]

\* atlasImg.paste(image, (left, top)): the pixels of the image, put at the
\* box, as far as they fall on the atlas.
paste(atlasImg, image, box) ==
    [atlasImg EXCEPT !.px =
        [p \in DOMAIN atlasImg.px |->
            IF /\ box[1] <= p[1] /\ p[1] < box[1] + image.size[1]
               /\ box[2] <= p[2] /\ p[2] < box[2] + image.size[2]
            THEN SourcePixel(image, p[1] - box[1], p[2] - box[2])
            ELSE atlasImg.px[p]]]

\* fillAtlasImage with the first child of every internal node visited twice.
RECURSIVE fillAtlasImageTwice(_, _, _)
fillAtlasImageTwice(self, st, arith) ==
    IF isLeaf(self)
    THEN IF self.image # None
         THEN [atlasImg |-> paste(st.atlasImg, self.image,
                                  <<self.rect.left, self.rect.top>>),
               objects |-> [st.objects EXCEPT ![self.building_id] =
                               updateUv(self, @, self.image, st.atlasImg, arith)],
               pastes |-> Append(st.pastes,
                                 [building_id |-> self.building_id,
                                  box |-> <<self.rect.left, self.rect.top>>,
                                  size |-> self.image.size])]
         ELSE st
    ELSE fillAtlasImageTwice(self.child[2],
             fillAtlasImageTwice(self.child[1],
                 fillAtlasImageTwice(self.child[1], st, arith), arith), arith)

\* Node.fillAtlasImage on the state st = [atlasImg, objects, pastes]:
\* objects is city_objects_with_gmlid_key reduced to each object's UV list,
\* pastes the history of the pastes done.
RECURSIVE fillAtlasImage(_, _, _)
fillAtlasImage(self, st, arith) ==
    IF isLeaf(self)
    THEN IF self.image # None
         THEN [atlasImg |-> paste(st.atlasImg, self.image,
                                  <<self.rect.left, self.rect.top>>),
               objects |-> [st.objects EXCEPT ![self.building_id] =
                               updateUv(self, @, self.image, st.atlasImg, arith)],
               pastes |-> Append(st.pastes,
                                 [building_id |-> self.building_id,
                                  box |-> <<self.rect.left, self.rect.top>>,
                                  size |-> self.image.size])]
         ELSE st
    ELSE fillAtlasImage(self.child[2],
                        fillAtlasImage(self.child[1], st, arith), arith)

VARIABLES
    textures_sorted,  \* the argument of computeAtlasTree: <<key, image>> pairs
    pc,               \* the position of the run
    rect,             \* computeAtlasTree's rect: the canvas of the pass
    node_root,        \* computeAtlasTree's node_root
    idx,              \* the position of the for loop in textures_sorted
    canvases,         \* history: the canvas of every pass started so far
    atlasImg,         \* createAtlasImage's atlasImg
    objects,          \* the UV list of every object of the tile
    objects0,         \* history: the UV lists createAtlasImage was given
    pastes,           \* history: the pastes done into atlasImg, in order
    builds,           \* the builds of several tiles that run interleaved
    fetched           \* retrieve_geometries: the rows fetched and its two dicts

vars == <<textures_sorted, pc, rect, node_root, idx, canvases,
          atlasImg, objects, objects0, pastes, builds, fetched>>

Sizes == (1..MaxDim) \X (1..MaxDim)

\* The textures of a tile of at most n objects, in the order of their rows.
TextureItems(n) == UNION {[1..m -> Sizes] : m \in 0..n}

\* Two textures of 4 x 4 pixels.
ScenarioA == << <<4, 4>>, <<4, 4>> >>

\* One texture of 13 x 1 pixels, far from square.
LongStrip == << <<13, 1>> >>

\* One texture of 100 x 10 pixels and one of 10 x 100.
ScenarioB == << <<100, 10>>, <<10, 100>> >>

ItemsOf(sizes) ==
    [i \in 1..Len(sizes) |-> <<Key(i), Image(sizes[i][1], sizes[i][2], i)>>]

\* The UV list of an object textured by a w x h image: triangles over all
\* the pixel corners (x/w, y/h) of the texture, as single-precision floats,
\* followed by two more triangles.
PixelCoordinate ==
    [w \in (1..MaxDim) \cup {4, 13} |-> [x \in 0..w |-> float32OfQuotient(x, w)]]

\* The t-th pixel corner of a w x h texture, row by row (and round again
\* past the last one).
PixelUv(t, w, h) ==
    LET c == t % ((w + 1) * (h + 1))
    IN  << PixelCoordinate[w][c % (w + 1)], PixelCoordinate[h][c \div (w + 1)] >>

\* A UV that is a single-precision float with all 24 bits of its significand
\* in use: (2^23 + 1) / 2^24.
FullUv == Dyadic(Float32Least + 1, Float32Bits)

ExtraTriangles ==
    << << <<FullUv, TrueDiv(1, 2)>>, <<TrueDiv(1, 2), FullUv>>,
          <<TrueDiv(1, 4), TrueDiv(3, 4)>> >>,
       << <<FloatOfInt(1), FloatOfInt(0)>>, <<FloatOfInt(0), FloatOfInt(1)>>,
          <<FloatOfInt(1), FloatOfInt(1)>> >> >>

MeshOf(w, h) ==
    [t \in 1..(((w + 1) * (h + 1) + 2) \div 3) |->
        << PixelUv(3 * t - 3, w, h), PixelUv(3 * t - 2, w, h),
           PixelUv(3 * t - 1, w, h) >>]
    \o ExtraTriangles

ObjectsOf(textures) ==
    [k \in {textures[i][1] : i \in 1..Len(textures)} |->
        LET i == CHOOSE j \in 1..Len(textures) : textures[j][1] = k
        IN  MeshOf(textures[i][2].size[1], textures[i][2].size[2])]

\* The call computeAtlasTree(textures_sorted) on the textures given.
Start(items) ==
    /\ \E sizes \in items :
          textures_sorted = SortedByArea(ItemsOf(sizes))
    /\ pc = "estimate"
    /\ rect = None
    /\ node_root = None
    /\ idx = 0
    /\ canvases = <<>>
    /\ atlasImg = None
    /\ objects = None
    /\ objects0 = None
    /\ pastes = <<>>
    /\ builds = <<>>
    /\ fetched = None

Init == Start(TextureItems(MaxImages) \cup {ScenarioA, ScenarioB, LongStrip})

\* Lines 286-297: the area estimate and the first canvas.
Estimate ==
    /\ pc = "estimate"
    /\ LET surfaceAtlas == SumAreas(textures_sorted)
           sizeOfAtlas == multipleOf2(Sqrt(surfaceAtlas))
       IN  rect' = Rectangle(0, 0, sizeOfAtlas, sizeOfAtlas)
    /\ node_root' = None
    /\ pc' = "while"
    /\ UNCHANGED <<fetched, builds, textures_sorted, idx, canvases, atlasImg, objects,
                   objects0, pastes>>

\* A pass that goes on in the list from the image that failed, instead of
\* from the first one.
NewPassResuming ==
    /\ pc = "while"
    /\ node_root = None
    /\ Len(canvases) < MaxPasses
    /\ node_root' = Node(rect)
    /\ idx' = IF idx = 0 THEN 1 ELSE idx
    /\ canvases' = Append(canvases, rect)
    /\ pc' = "for"
    /\ UNCHANGED <<fetched, builds, textures_sorted, rect, atlasImg, objects, objects0, pastes>>

\* Lines 298-299: the loop test, and a fresh root for the pass.
NewPass ==
    /\ pc = "while"
    /\ node_root = None
    /\ Len(canvases) < MaxPasses
    /\ node_root' = Node(rect)
    /\ idx' = 1
    /\ canvases' = Append(canvases, rect)
    /\ pc' = "for"
    /\ UNCHANGED <<fetched, builds, textures_sorted, rect, atlasImg, objects, objects0, pastes>>

\* Lines 300-311: one iteration of the for loop.
InsertNext ==
    /\ pc = "for"
    /\ idx <= Len(textures_sorted)
    /\ LET key == textures_sorted[idx][1]
           image == textures_sorted[idx][2]
           result == insert(node_root, image, key)
       IN  /\ node_root' = result
           /\ IF result = None
              THEN /\ rect' = GrownRect(rect)
                   /\ pc' = "while"
                   /\ idx' = idx
              ELSE /\ rect' = rect
                   /\ pc' = "for"
                   /\ idx' = idx + 1
    /\ UNCHANGED <<fetched, builds, textures_sorted, canvases, atlasImg, objects, objects0,
                   pastes>>

\* Lines 298, 312: the for loop is exhausted, the loop test fails, return.
Return ==
    /\ pc = "for"
    /\ idx > Len(textures_sorted)
    /\ node_root # None
    /\ pc' = "done"
    /\ UNCHANGED <<fetched, builds, textures_sorted, rect, node_root, idx, canvases, atlasImg,
                   objects, objects0, pastes>>

\* createAtlasImage called on the tree of a pass that is still running.
createAtlasImageEarly ==
    /\ pc \in {"for", "done"}
    /\ node_root # None
    /\ \E arith \in {"float64", "float32"} :
          LET given == ObjectsOf(textures_sorted)
              blank == NewImage(node_root.rect.width, node_root.rect.height)
              st == fillAtlasImage(node_root,
                                   [atlasImg |-> blank, objects |-> given,
                                    pastes |-> <<>>],
                                   arith)
          IN  /\ atlasImg' = st.atlasImg
              /\ objects' = st.objects
              /\ objects0' = given
              /\ pastes' = st.pastes
    /\ pc' = IF pc = "done" THEN "saved" ELSE pc
    /\ UNCHANGED <<fetched, builds, textures_sorted, rect, node_root, idx, canvases>>

\* Node.createAtlasImage on the returned tree (lines 166-183), given the
\* objects of the tile.
createAtlasImage ==
    /\ pc = "done"
    /\ \E arith \in {"float64", "float32"} :
          LET given == ObjectsOf(textures_sorted)
              blank == NewImage(node_root.rect.width, node_root.rect.height)
              st == fillAtlasImage(node_root,
                                   [atlasImg |-> blank, objects |-> given,
                                    pastes |-> <<>>],
                                   arith)
          IN  /\ atlasImg' = st.atlasImg
              /\ objects' = st.objects
              /\ objects0' = given
              /\ pastes' = st.pastes
    /\ pc' = "saved"
    /\ UNCHANGED <<fetched, builds, textures_sorted, rect, node_root, idx, canvases>>

Next == Estimate \/ NewPass \/ InsertNext \/ Return

\* computeAtlasTree alone.
Spec == Init /\ [][Next]_vars

\* computeAtlasTree as a sequential program: a step that can be taken is
\* taken.
LiveSizes == (1..MaxLiveDim) \X (1..MaxLiveDim)

LiveItems == UNION {[1..m -> LiveSizes] : m \in 0..MaxFewImages}

InitLive == Start(LiveItems \cup {ScenarioA, ScenarioB, LongStrip})

LiveSpec == InitLive /\ [][Next]_vars /\ WF_vars(Next)

\* computeAtlasTree, then createAtlasImage on the tree it returns.
InitAtlas == Start(TextureItems(MaxFewImages) \cup {ScenarioA, LongStrip})

NextAtlas == Estimate \/ NewPass \/ InsertNext \/ Return \/ createAtlasImage

SpecAtlas == InitAtlas /\ [][NextAtlas]_vars

(* ---------------------- direct calls of Node.insert -------------------- *)
\* A tree over one canvas rectangle, and any calls of insert on its root.
InitInsert ==
    /\ \E w \in 1..MaxCanvas, h \in 1..MaxCanvas :
          /\ rect = Rectangle(0, 0, w, h)
          /\ node_root = Node(Rectangle(0, 0, w, h))
          /\ canvases = << Rectangle(0, 0, w, h) >>
    /\ textures_sorted = <<>>
    /\ pc = "insert"
    /\ idx = 0
    /\ atlasImg = None
    /\ objects = None
    /\ objects0 = None
    /\ pastes = <<>>
    /\ builds = <<>>
    /\ fetched = None

\* One call node_root.insert(img, building_id) on the root object, which
\* node_root goes on naming whatever the call returns; idx counts the calls.
InsertCall ==
    /\ pc = "insert"
    /\ idx < MaxCalls
    /\ \E size \in Sizes :
          LET key == Key(idx + 1)
              call == insertInPlace(node_root,
                                    Image(size[1], size[2], idx + 1), key)
          IN  node_root' = call.self
    /\ idx' = idx + 1
    /\ UNCHANGED <<fetched, builds, textures_sorted, pc, rect, canvases, atlasImg, objects,
                   objects0, pastes>>

NextInsert == InsertCall

SpecInsert == InitInsert /\ [][NextInsert]_vars

(* ------------------- the builds of several tiles ----------------------- *)
\* The tiles whose atlases are built by calls of computeAtlasTree that run
\* at the same time, their steps interleaved in any order.
Tiles == {"tile1", "tile2"}

TileSizes == (1..MaxTileDim) \X (1..MaxTileDim)

TileItems ==
    UNION {[1..m -> TileSizes] : m \in 0..MaxTileImages}
    \cup {ScenarioA, LongStrip}

\* The locals of one call computeAtlasTree(textures_sorted) at its entry.
BuildStart(sizes) ==
    [textures_sorted |-> SortedByArea(ItemsOf(sizes)), pc |-> "estimate",
     rect |-> None, node_root |-> None, idx |-> 0, canvases |-> <<>>]

\* The locals of a call after its next step: lines 286-297, 298-299,
\* 300-311, and 312.
BuildStep(b) ==
    IF b.pc = "estimate"
    THEN LET sizeOfAtlas == multipleOf2(Sqrt(SumAreas(b.textures_sorted)))
         IN  [b EXCEPT !.rect = Rectangle(0, 0, sizeOfAtlas, sizeOfAtlas),
                       !.pc = "while"]
    ELSE IF b.pc = "while"
    THEN [b EXCEPT !.node_root = Node(b.rect), !.idx = 1,
                   !.canvases = Append(@, b.rect), !.pc = "for"]
    ELSE IF b.idx <= Len(b.textures_sorted)
    THEN LET result == insert(b.node_root, b.textures_sorted[b.idx][2],
                              b.textures_sorted[b.idx][1])
         IN  IF result = None
             THEN [b EXCEPT !.node_root = None, !.rect = GrownRect(b.rect),
                            !.pc = "while"]
             ELSE [b EXCEPT !.node_root = result, !.idx = b.idx + 1]
    ELSE [b EXCEPT !.pc = "done"]

InitTiles ==
    /\ builds \in [Tiles -> {BuildStart(sizes) : sizes \in TileItems}]
    /\ textures_sorted = <<>>
    /\ pc = "tiles"
    /\ rect = None
    /\ node_root = None
    /\ idx = 0
    /\ canvases = <<>>
    /\ atlasImg = None
    /\ objects = None
    /\ objects0 = None
    /\ pastes = <<>>
    /\ fetched = None

\* A step of the build of tile t in which rect is one variable of the
\* module, written by every build.
TileStepSharedRect(t) ==
    /\ pc = "tiles"
    /\ builds[t].pc # "done"
    /\ builds[t].pc = "while" => Len(builds[t].canvases) < MaxPasses
    /\ LET after == BuildStep(builds[t])
       IN  builds' = [u \in Tiles |->
                         IF u = t THEN after
                         ELSE [builds[u] EXCEPT !.rect = after.rect]]
    /\ UNCHANGED <<fetched, textures_sorted, pc, rect, node_root, idx, canvases,
                   atlasImg, objects, objects0, pastes>>

\* One step of the build of tile t: it reads and writes the locals of its
\* own call and the objects that call created, nothing else.
TileStep(t) ==
    /\ pc = "tiles"
    /\ builds[t].pc # "done"
    /\ builds[t].pc = "while" => Len(builds[t].canvases) < MaxPasses
    /\ builds' = [builds EXCEPT ![t] = BuildStep(builds[t])]
    /\ UNCHANGED <<fetched, textures_sorted, pc, rect, node_root, idx, canvases,
                   atlasImg, objects, objects0, pastes>>

NextTiles == \E t \in Tiles : TileStep(t)

SpecTiles == InitTiles /\ [][NextTiles]_vars

(* ----------------------- retrieve_geometries --------------------------- *)
\* What the geometry column of a fetched row can hold: a multipolygon with
\* triangles, a multipolygon without any, or NULL.
GeomKinds == {"triangles", "empty", "null"}

\* The rows cursor.fetchall() returns for the objects of a tile, one per
\* object: its id, its geometry and its texture.
Rows ==
    UNION {[1..m -> GeomKinds \X TileSizes] : m \in 1..MaxRows}

RowsOf(r) ==
    [i \in 1..Len(r) |->
        [id |-> Key(i), geom |-> r[i][1],
         image |-> Image(r[i][2][1], r[i][2][2], i)]]

\* Lines 246-248: the call retrieve_geometries at the head of its fetch
\* loop, the two dicts empty.
InitRetrieve ==
    /\ \E r \in Rows :
          fetched = [rows |-> RowsOf(r), row |-> 1,
                     textures_with_building_id_key |-> <<>>,
                     city_objects_with_gmlid_key |-> <<>>]
    /\ textures_sorted = <<>>
    /\ pc = "fetch"
    /\ rect = None
    /\ node_root = None
    /\ idx = 0
    /\ canvases = <<>>
    /\ atlasImg = None
    /\ objects = None
    /\ objects0 = None
    /\ pastes = <<>>
    /\ builds = <<>>

\* The fetch loop with a row without geometry ignored, as the comment of
\* lines 258-259 has it.
FetchRowSkipping ==
    /\ pc = "fetch"
    /\ fetched.row <= Len(fetched.rows)
    /\ LET t == fetched.rows[fetched.row]
       IN  IF t.geom # "triangles"
           THEN fetched' = [fetched EXCEPT !.row = @ + 1]
           ELSE fetched' =
                   [fetched EXCEPT
                       !.textures_with_building_id_key =
                           Append(@, <<t.id, t.image>>),
                       !.city_objects_with_gmlid_key = Append(@, t.id),
                       !.row = @ + 1]
    /\ UNCHANGED <<pc, builds, textures_sorted, rect, node_root, idx, canvases,
                   atlasImg, objects, objects0, pastes>>

\* Lines 249-280: one iteration of the fetch loop, on row fetched.row.
\* sys.exit(1) ends the run at line 261 for a NULL geometry and at line 279
\* for an empty triangle list, the latter after line 275 has stored the
\* texture of the row.
FetchRow ==
    /\ pc = "fetch"
    /\ fetched.row <= Len(fetched.rows)
    /\ LET t == fetched.rows[fetched.row]
       IN  IF t.geom = "null"
           THEN /\ pc' = "exit"
                /\ fetched' = fetched
           ELSE IF t.geom = "empty"
           THEN /\ pc' = "exit"
                /\ fetched' =
                      [fetched EXCEPT
                          !.textures_with_building_id_key =
                              Append(@, <<t.id, t.image>>)]
           ELSE /\ pc' = pc
                /\ fetched' =
                      [fetched EXCEPT
                          !.textures_with_building_id_key =
                              Append(@, <<t.id, t.image>>),
                          !.city_objects_with_gmlid_key = Append(@, t.id),
                          !.row = @ + 1]
    /\ UNCHANGED <<builds, textures_sorted, rect, node_root, idx, canvases,
                   atlasImg, objects, objects0, pastes>>

\* Line 282: the rows are exhausted and the textures are sorted, largest
\* first. Lines 283-292 then repeat computeAtlasTree statement for
\* statement.
SortAtlas ==
    /\ pc = "fetch"
    /\ fetched.row > Len(fetched.rows)
    /\ textures_sorted' = SortedByArea(fetched.textures_with_building_id_key)
    /\ pc' = "estimate"
    /\ UNCHANGED <<fetched, builds, rect, node_root, idx, canvases, atlasImg,
                   objects, objects0, pastes>>

\* Lines 295-297: the black atlas image is created, as wide as the canvas
\* and as high as it is wide, and the call of insertImages, a method Node
\* does not have, raises AttributeError: lines 298-311, which save the
\* atlas and return the arrays, are not reached.
insertImages ==
    /\ pc = "done"
    /\ fetched # None
    /\ atlasImg' = NewImage(node_root.rect.width, node_root.rect.width)
    /\ pc' = "error"
    /\ UNCHANGED <<fetched, builds, textures_sorted, rect, node_root, idx,
                   canvases, objects, objects0, pastes>>

NextRetrieve ==
    FetchRow \/ SortAtlas \/ Estimate \/ NewPass \/ InsertNext \/ Return
    \/ insertImages

SpecRetrieve == InitRetrieve /\ [][NextRetrieve]_vars

(* ------------------------------------------------------------------------ *)
(*                              The claims                                  *)
(* ------------------------------------------------------------------------ *)
\* Two rectangles overlap when they share a region of positive area.
Max(a, b) == IF a >= b THEN a ELSE b
Min(a, b) == IF a <= b THEN a ELSE b

Overlap(a, b) ==
    /\ Max(a.left, b.left) < Min(a.right, b.right)
    /\ Max(a.top, b.top) < Min(a.bottom, b.bottom)

\* The region of the canvas the image of a leaf occupies.
Region(leaf) ==
    Rectangle(leaf.rect.left, leaf.rect.top,
              leaf.rect.left + leaf.image.size[1],
              leaf.rect.top + leaf.image.size[2])

IsPowerOfTwo(n) == n \in PowersOfTwo

\* C1: after any calls of insert on a tree over one canvas rectangle, failed
\* ones included, no two leaf rectangles of the tree overlap, and the regions
\* of any two placed images are disjoint.
C1_NoOverlap ==
    \A l1 \in Leaves(node_root), l2 \in Leaves(node_root) :
        l1.path # l2.path =>
            /\ ~Overlap(l1.rect, l2.rect)
            /\ (l1.image # None /\ l2.image # None
                    => ~Overlap(Region(l1), Region(l2)))

\* Three images placed, and a call that failed.
C1_Witness ==
    /\ Cardinality(ImageLeaves(node_root)) >= 3
    /\ idx > Cardinality(ImageLeaves(node_root))

\* C2: when computeAtlasTree returns, every input object_id is the
\* building_id of exactly one leaf of the returned tree, that leaf holds that
\* object's image, and there are as many leaves with an image as inputs.
C2_FullPlacement ==
    pc = "done" =>
        /\ \A i \in 1..Len(textures_sorted) :
              LET holders == {l \in Leaves(node_root) :
                                 l.building_id = textures_sorted[i][1]}
              IN  /\ Cardinality(holders) = 1
                  /\ \A l \in holders : l.image = textures_sorted[i][2]
        /\ Cardinality(ImageLeaves(node_root)) = Len(textures_sorted)

\* The packer returned after a retry, with MaxImages images of which two
\* have the same size.
C2_Witness ==
    /\ pc = "done"
    /\ Len(textures_sorted) = MaxImages
    /\ Len(canvases) >= 2
    /\ \E i \in 1..Len(textures_sorted), j \in 1..Len(textures_sorted) :
          i # j /\ textures_sorted[i][2].size = textures_sorted[j][2].size

\* C5: the canvas of every pass is a square at the origin whose side is a
\* power of two, and twice the side of the canvas of the pass before.
C5_CanvasDoubles ==
    /\ \A i \in 1..Len(canvases) :
          LET c == canvases[i]
          IN  /\ c.left = 0 /\ c.top = 0
              /\ c.right = c.width /\ c.bottom = c.height
              /\ c.width = c.height
              /\ IsPowerOfTwo(c.width)
              /\ i > 1 => /\ c.width = 2 * canvases[i - 1].width
                          /\ c.height = 2 * canvases[i - 1].height
    /\ pc \in {"for", "done"} => node_root = None \/ node_root.rect = rect

\* A third pass has started.
C5_Witness == Len(canvases) >= 3

\* The whole list inserted, in its order, into a fresh root over a square
\* canvas of the given side: the tree, or None at the first failure.
RECURSIVE InsertAll(_, _, _)
InsertAll(node, textures, i) ==
    IF node = None \/ i > Len(textures) THEN node
    ELSE InsertAll(insert(node, textures[i][2], textures[i][1]), textures, i + 1)

PackSucceeds(side, textures) ==
    InsertAll(Node(Rectangle(0, 0, side, side)), textures, 1) # None

\* C6: the side of the returned canvas is the smallest of e, 2e, 4e, ... (e
\* the area estimate) on which inserting the whole list succeeds: every
\* smaller one fails, and the canvas is not grown after the pass that
\* succeeded.
C6_SmallestSide ==
    pc = "done" =>
        LET e == multipleOf2(Sqrt(SumAreas(textures_sorted)))
            sides == {e * Pow2(k) : k \in 0..(MaxPasses - 1)}
            side == node_root.rect.width
        IN  /\ side \in sides
            /\ node_root.rect = Rectangle(0, 0, side, side)
            /\ PackSucceeds(side, textures_sorted)
            /\ \A s \in sides : s < side => ~PackSucceeds(s, textures_sorted)
            /\ rect = node_root.rect
            /\ canvases[Len(canvases)] = node_root.rect

\* The packer returned after two failed passes.
C6_Witness == pc = "done" /\ Len(canvases) >= 3

C4_Terminates == <>(pc = "done")

\* The packer returned after the canvas was doubled twice.
C4_Witness == pc = "done" /\ Len(canvases) >= 3 /\ idx = Len(textures_sorted) + 1

IsScenarioA ==
    /\ Len(textures_sorted) = 2
    /\ textures_sorted[1][2].size = <<4, 4>>
    /\ textures_sorted[2][2].size = <<4, 4>>

\* C10: two images of 4 x 4 pixels get a first canvas of side 8 and are both
\* placed on it in the first pass: no retry, and the root returned is 8 x 8.
C10_ScenarioA ==
    IsScenarioA =>
        /\ canvases # <<>> => canvases[1] = Rectangle(0, 0, 8, 8)
        /\ Len(canvases) <= 1
        /\ pc = "done" => /\ node_root.rect = Rectangle(0, 0, 8, 8)
                          /\ Cardinality(ImageLeaves(node_root)) = 2

\* |a - b| <= 2^-24, the unit roundoff of a single-precision float.
WithinRounding(a, b) ==
    LET diff == FloatAdd(a, FloatNeg(b))
    IN  \/ diff.m = 0
        \/ /\ diff.e >= Float32Bits
           /\ diff.m <= Pow2(diff.e - Float32Bits)
           /\ 0 - diff.m <= Pow2(diff.e - Float32Bits)

\* A value that is a single-precision float.
IsFloat32(a) == float32(a) = a

\* The greatest common divisor.
RECURSIVE Gcd(_, _)
Gcd(a, b) == IF b = 0 THEN a ELSE Gcd(b, a % b)

\* The vertices of the triangles of the placed objects, each with the UV
\* pair createAtlasImage was given and the pair it left, and with the leaf
\* of the object.
PlacedVertices ==
    UNION {{[leaf |-> l, given |-> objects0[l.building_id][i][y],
                         left |-> objects[l.building_id][i][y]] :
               i \in 1..Len(objects0[l.building_id]), y \in 1..3} :
           l \in ImageLeaves(node_root)}

\* One coordinate new of a vertex is old * size / atlas + origin / atlas.
ExactlyRemapped(old, new, size, origin, atlas) ==
    new = FloatAdd(FloatMul(old, TrueDiv(size, atlas)), TrueDiv(origin, atlas))

CornerRemapped(old, new, size, origin, atlas) ==
    /\ old = FloatOfInt(0) => new = TrueDiv(origin, atlas)
    /\ old = FloatOfInt(1) => new = TrueDiv(origin + size, atlas)

\* C8, as claimed: for a leaf at (L, T, R, B) on a canvas of size (W, H)
\* with a texture of size (w, h), updateUv maps the corner UVs to L/W,
\* (L+w)/W, T/H and (T+h)/H, and in general new_u * W = u * w + L and
\* new_v * H = v * h + T.
C8_UvRemapExact ==
    pc = "saved" =>
        \A p \in PlacedVertices :
            LET r == p.leaf.rect
                size == p.leaf.image.size
            IN  /\ CornerRemapped(p.given[1], p.left[1], size[1], r.left,
                                  atlasImg.size[1])
                /\ CornerRemapped(p.given[2], p.left[2], size[2], r.top,
                                  atlasImg.size[2])
                /\ ExactlyRemapped(p.given[1], p.left[1], size[1], r.left,
                                   atlasImg.size[1])
                /\ ExactlyRemapped(p.given[2], p.left[2], size[2], r.top,
                                   atlasImg.size[2])

\* One coordinate new of a vertex is old * size / atlas + origin / atlas as
\* far as single precision goes: exactly when the product and the sum are
\* single-precision floats, and within the unit roundoff in any case.
RoundedRemapped(old, new, size, origin, atlas) ==
    LET product == FloatMul(old, TrueDiv(size, atlas))
        sum == FloatAdd(product, TrueDiv(origin, atlas))
    IN  /\ IsFloat32(product) /\ IsFloat32(sum) => new = sum
        /\ WithinRounding(new, sum)
        /\ IsFloat32(new)

\* C8, amended: updateUv maps the corner UVs exactly as claimed; in general
\* new_u and new_v are single-precision floats within 2^-24 of
\* (u * w + L) / W and (v * h + T) / H, and equal to them when those values
\* and the products u * w / W and v * h / H are single-precision floats.
C8_UvRemapRounded ==
    pc = "saved" =>
        \A p \in PlacedVertices :
            LET r == p.leaf.rect
                size == p.leaf.image.size
            IN  /\ CornerRemapped(p.given[1], p.left[1], size[1], r.left,
                                  atlasImg.size[1])
                /\ CornerRemapped(p.given[2], p.left[2], size[2], r.top,
                                  atlasImg.size[2])
                /\ RoundedRemapped(p.given[1], p.left[1], size[1], r.left,
                                   atlasImg.size[1])
                /\ RoundedRemapped(p.given[2], p.left[2], size[2], r.top,
                                   atlasImg.size[2])

\* A texture placed away from the left of the atlas, with its corner UV
\* (1, 1) rewritten, and with a UV pair that is no corner rewritten as well.
C8_Witness ==
    /\ pc = "saved"
    /\ \E p \in PlacedVertices :
          /\ p.leaf.rect.left > 0
          /\ p.given = <<FloatOfInt(1), FloatOfInt(1)>>
          /\ p.left # p.given
    /\ \E p \in PlacedVertices :
          /\ p.leaf.rect.left > 0
          /\ p.given[1] \notin {FloatOfInt(0), FloatOfInt(1)}
          /\ p.left # p.given

\* The paste covers the position pos of the atlas.
Covers(p, pos) ==
    /\ p.box[1] <= pos[1] /\ pos[1] < p.box[1] + p.size[1]
    /\ p.box[2] <= pos[2] /\ pos[2] < p.box[2] + p.size[2]

\* The pixel (x, y) of the image of leaf l is at (left + x, top + y) of the
\* atlas, and the one paste that wrote there is the paste of that image.
PixelPlaced(l, x, y) ==
    LET pos == <<l.rect.left + x, l.rect.top + y>>
    IN  /\ pos \in DOMAIN atlasImg.px
        /\ atlasImg.px[pos] = SourcePixel(l.image, x, y)
        /\ \A j \in 1..Len(pastes) :
              Covers(pastes[j], pos) => pastes[j].building_id = l.building_id
        /\ Cardinality({j \in 1..Len(pastes) :
                           pastes[j].building_id = l.building_id}) = 1

\* The vertices of the object of leaf l that were given the UV of the pixel
\* (x, y) of its texture: the single-precision floats nearest x/w and y/h.
VerticesAt(l, x, y) ==
    {p \in PlacedVertices :
        /\ p.leaf = l
        /\ p.given = << PixelCoordinate[l.image.size[1]][x],
                        PixelCoordinate[l.image.size[2]][y] >>}

\* C9, as claimed: after fillAtlasImage every pixel (x, y) of every placed
\* image is at (left + x, top + y) of the atlas, no other image is written
\* there, and the UV (x/w, y/h) is remapped to exactly
\* ((left + x) / W, (top + y) / H).
C9_RoundTripExact ==
    pc = "saved" =>
        \A l \in ImageLeaves(node_root) :
            \A x \in 0..(l.image.size[1] - 1), y \in 0..(l.image.size[2] - 1) :
                /\ PixelPlaced(l, x, y)
                /\ VerticesAt(l, x, y) # {}
                /\ \A p \in VerticesAt(l, x, y) :
                      p.left = << TrueDiv(l.rect.left + x, atlasImg.size[1]),
                                  TrueDiv(l.rect.top + y, atlasImg.size[2]) >>

\* new is the coordinate (origin + x) / atlas as far as single precision
\* goes: within the unit roundoff, and exactly when x / size is a float.
PixelRemapped(new, x, size, origin, atlas) ==
    /\ WithinRounding(new, TrueDiv(origin + x, atlas))
    /\ IsPowerOfTwo(size \div Gcd(x, size)) => new = TrueDiv(origin + x, atlas)

\* C9, amended: the pixels are placed as claimed and written by no other
\* image; the UV of a pixel, given as the single-precision floats nearest
\* (x/w, y/h), is remapped to within 2^-24 of ((left + x) / W,
\* (top + y) / H), and to exactly that when x/w and y/h are themselves
\* single-precision floats.
C9_RoundTripRounded ==
    pc = "saved" =>
        \A l \in ImageLeaves(node_root) :
            \A x \in 0..(l.image.size[1] - 1), y \in 0..(l.image.size[2] - 1) :
                /\ PixelPlaced(l, x, y)
                /\ VerticesAt(l, x, y) # {}
                /\ \A p \in VerticesAt(l, x, y) :
                      /\ PixelRemapped(p.left[1], x, l.image.size[1],
                                       l.rect.left, atlasImg.size[1])
                      /\ PixelRemapped(p.left[2], y, l.image.size[2],
                                       l.rect.top, atlasImg.size[2])

\* Two images in the atlas, the second one away from the origin, and a
\* texture whose width is no power of two.
C9_Witness ==
    /\ pc = "saved"
    /\ Len(pastes) = 2
    /\ pastes[2].box # <<0, 0>>
    /\ \E l \in ImageLeaves(node_root) : l.image.size[1] = 3 /\ l.rect.left > 0

IsScenarioB ==
    /\ Len(textures_sorted) = 2
    /\ textures_sorted[1][2].size = <<100, 10>>
    /\ textures_sorted[2][2].size = <<10, 100>>

\* The packer has returned a tree over a canvas that was doubled at least
\* once from an estimate too small for the list, with both images placed and
\* no two of them overlapping.
PackedAfterGrowth ==
    /\ pc = "done"
    /\ Len(canvases) >= 2
    /\ ~PackSucceeds(canvases[1].width, textures_sorted)
    /\ \A i \in 2..Len(canvases) :
          canvases[i].width = 2 * canvases[i - 1].width
    /\ node_root.rect = canvases[Len(canvases)]
    /\ \A i \in 1..Len(textures_sorted) :
          \E l \in ImageLeaves(node_root) :
              /\ l.building_id = textures_sorted[i][1]
              /\ l.image = textures_sorted[i][2]
              /\ l.rect.width = l.image.size[1]
              /\ l.rect.height = l.image.size[2]
    /\ \A l1 \in ImageLeaves(node_root), l2 \in ImageLeaves(node_root) :
          l1.path # l2.path => ~Overlap(Region(l1), Region(l2))

\* C11: packing one image of 100 x 10 pixels and one of 10 x 100 starts from
\* an estimate that is too small, doubles the canvas at least once, and then
\* succeeds with both images placed without overlap.
C11_ScenarioB == IsScenarioB => <>PackedAfterGrowth

\* The two images of the scenario packed on a canvas of side 128, after a
\* pass on a canvas of side 64 that failed.
C11_Witness ==
    /\ IsScenarioB
    /\ PackedAfterGrowth
    /\ canvases[1].width = 64
    /\ node_root.rect.width = 128

\* C12: insert called on a leaf that already holds an image returns None
\* for any image, one that fits the leaf perfectly included, and leaves the
\* leaf's image, building_id, rectangle and absent children unchanged.
C12_OccupiedLeaf ==
    \A n \in Nodes(node_root) :
        isLeaf(n) /\ n.image # None =>
            \A size \in Sizes \cup {n.image.size} :
                LET call == insertInPlace(n, Image(size[1], size[2], 0), Key(0))
                IN  /\ call.ret = None
                    /\ call.self = n
                    /\ call.self.image = n.image
                    /\ call.self.building_id = n.building_id
                    /\ call.self.rect = n.rect
                    /\ call.self.child = <<None, None>>

\* The root is a leaf that holds the image of the first call, and a second
\* call was made on it.
C12_Witness ==
    /\ pc = "insert"
    /\ isLeaf(node_root)
    /\ node_root.image # None
    /\ node_root.building_id = Key(1)
    /\ idx >= 2

\* The packer has returned a tree that is one leaf without an image, over a
\* canvas of the least side, after a single pass.
EmptyAtlas ==
    /\ pc = "done"
    /\ node_root # None
    /\ isLeaf(node_root)
    /\ ImageLeaves(node_root) = {}
    /\ node_root.building_id = None
    /\ node_root.rect = Rectangle(0, 0, MinSide, MinSide)
    /\ Len(canvases) = 1

\* C13: computeAtlasTree called with zero images terminates and returns an
\* empty atlas: a tree in which no leaf holds an image, whose canvas side is
\* the minimum that multipleOf2 defines.
C13_ZeroImages == textures_sorted = <<>> => <>EmptyAtlas

\* The packer returned for an empty list of images.
C13_Witness == textures_sorted = <<>> /\ EmptyAtlas /\ idx = 1

\* C14: when the growth of the canvas exceeds a bound the caller specified
\* without a pass that succeeded, the packer stops with a
\* PackingOverflowError instead of growing further, and returns no tree:
\* whatever bound at or above the first estimate the caller has, no pass is
\* made on a canvas above it and the run ends as an error.
C14_OverflowStops ==
    \A bound \in PowersOfTwo :
        /\ canvases # <<>>
        /\ canvases[1].width <= bound
        /\ rect.width > bound
        => /\ pc = "PackingOverflowError"
           /\ node_root = None
           /\ canvases[Len(canvases)].width <= bound

\* C15: updateUv is applied to the UVs of an object only after the
\* build/retry loop has converged: no UV is rewritten and nothing is pasted
\* while a pass runs, and every rewrite uses the placement of the leaf in the
\* tree returned and the size of its canvas, the last one of the loop.
C15_UvAfterConvergence ==
    /\ pc # "saved" =>
          atlasImg = None /\ pastes = <<>> /\ objects = None /\ objects0 = None
    /\ pc = "saved" =>
          /\ idx = Len(textures_sorted) + 1
          /\ node_root.rect = canvases[Len(canvases)]
          /\ atlasImg.size = <<node_root.rect.width, node_root.rect.height>>
          /\ Len(pastes) = Cardinality(ImageLeaves(node_root))
          /\ \A l \in ImageLeaves(node_root) :
                /\ \E j \in 1..Len(pastes) :
                      /\ pastes[j].building_id = l.building_id
                      /\ pastes[j].box = <<l.rect.left, l.rect.top>>
                /\ \E arith \in {"float64", "float32"} :
                      objects[l.building_id] =
                          updateUv(l, objects0[l.building_id], l.image,
                                   [size |-> <<canvases[Len(canvases)].width,
                                               canvases[Len(canvases)].height>>],
                                   arith)
          /\ \A k \in DOMAIN objects :
                (\A l \in ImageLeaves(node_root) : l.building_id # k)
                    => objects[k] = objects0[k]

\* The atlas assembled from a tree that was built after a pass was
\* discarded, with the UVs of two objects rewritten.
C15_Witness ==
    /\ pc = "saved"
    /\ Len(canvases) >= 2
    /\ Len(pastes) = 2
    /\ \A k \in DOMAIN objects : objects[k] # objects0[k]

\* C16: in every pass images are inserted in non-increasing order of pixel
\* area: the images in the tree of the pass are the first ones of the list,
\* and none of them is smaller in area than an image still to be inserted.
C16_LargestFirst ==
    pc \in {"for", "done"} =>
        /\ {l.building_id : l \in ImageLeaves(node_root)}
               = {textures_sorted[i][1] : i \in 1..(idx - 1)}
        /\ \A i \in 1..(idx - 1), j \in 1..Len(textures_sorted) :
              i < j => computeArea(textures_sorted[i][2].size)
                          >= computeArea(textures_sorted[j][2].size)

\* Two images are in the tree of a pass, the first of them the one that came
\* third from the database, and a smaller image is still to be inserted.
C16_Witness ==
    /\ pc = "for"
    /\ idx = 3
    /\ Len(textures_sorted) = 3
    /\ textures_sorted[1][1] = Key(3)
    /\ computeArea(textures_sorted[3][2].size)
           < computeArea(textures_sorted[2][2].size)

\* The tree computeAtlasTree returns for a list when it runs alone, from
\* the canvas given: the tree of the first pass that places the whole list.
RECURSIVE AloneFrom(_, _, _)
AloneFrom(canvas, textures, passes) ==
    LET tree == InsertAll(Node(canvas), textures, 1)
    IN  IF tree # None \/ passes = 0 THEN tree
        ELSE AloneFrom(GrownRect(canvas), textures, passes - 1)

Alone(textures) ==
    LET e == multipleOf2(Sqrt(SumAreas(textures)))
    IN  AloneFrom(Rectangle(0, 0, e, e), textures, MaxPasses)

\* C17: two builds for different tiles, their steps interleaved in any order,
\* share no mutable state: the tree, the canvas and the placements each build
\* ends with are those it produces when it runs alone.
C17_BuildsIsolated ==
    pc = "tiles" =>
        \A t \in Tiles :
            LET b == builds[t]
                alone == Alone(b.textures_sorted)
            IN  /\ b.pc = "done" =>
                      /\ b.node_root = alone
                      /\ b.rect = alone.rect
                      /\ ImageLeaves(b.node_root) = ImageLeaves(alone)
                /\ b.pc = "for" => b.node_root.rect = b.rect
                /\ b.canvases # <<>> => b.rect.width <= alone.rect.width

\* Both builds have returned, one after one pass it discarded and the other
\* after two.
C17_Witness ==
    /\ pc = "tiles"
    /\ \A t \in Tiles : builds[t].pc = "done"
    /\ Len(builds["tile1"].canvases) = 2
    /\ Len(builds["tile2"].canvases) = 3

\* The summed area of the leaf rectangles of a tree.
RECURSIVE LeafAreaSum(_)
LeafAreaSum(node) ==
    IF isLeaf(node) THEN node.rect.width * node.rect.height
    ELSE LeafAreaSum(node.child[1]) + LeafAreaSum(node.child[2])

\* The rectangle r holds the canvas point (x, y).
Holds(r, x, y) == r.left <= x /\ x < r.right /\ r.top <= y /\ y < r.bottom

\* C18: after any calls of insert the leaf rectangles of the tree together
\* cover the whole root rectangle: their areas sum to the area of the root,
\* and every point of the canvas lies in exactly one leaf.
C18_LeavesCoverCanvas ==
    /\ LeafAreaSum(node_root) = node_root.rect.width * node_root.rect.height
    /\ \A x \in node_root.rect.left..(node_root.rect.right - 1),
          y \in node_root.rect.top..(node_root.rect.bottom - 1) :
          Cardinality({l \in Leaves(node_root) : Holds(l.rect, x, y)}) = 1

\* C19: every Rectangle of a tree, after any calls of insert with images of
\* positive sizes (the root and every child a split made, the leftover child
\* included), has width >= 0 and height >= 0, with width = right - left and
\* height = bottom - top.
C19_RectanglesNonNegative ==
    \A n \in Nodes(node_root) :
        /\ n.rect.width >= 0
        /\ n.rect.height >= 0
        /\ n.rect.width = n.rect.right - n.rect.left
        /\ n.rect.height = n.rect.bottom - n.rect.top

\* A tree with a leftover child of width 0 and a leftover child of height 0.
C19_Witness ==
    /\ \E n \in Nodes(node_root) : n.rect.width = 0 /\ n.rect.height > 0
    /\ \E n \in Nodes(node_root) : n.rect.height = 0 /\ n.rect.width > 0

\* C20: in every reachable tree each node has both children or none, every
\* node with children has a rectangle for both of them, and a leaf holds at
\* most one image (with the building_id it was placed for, and of the size
\* of the leaf).
C20_NodeShape ==
    \A n \in Nodes(node_root) :
        /\ n.child[1] = None <=> n.child[2] = None
        /\ ~isLeaf(n) =>
              /\ n.child[1].rect # None
              /\ n.child[2].rect # None
        /\ isLeaf(n) =>
              \/ n.image = None /\ n.building_id = None
              \/ /\ n.image # None /\ n.building_id # None
                 /\ n.image.size = <<n.rect.width, n.rect.height>>
                 /\ Cardinality({l \in Leaves(node_root) :
                                     l.building_id = n.building_id}) = 1

\* A tree with a node whose children both have children, with leaves that
\* hold an image and leaves that hold none.
C20_Witness ==
    /\ \E n \in Nodes(node_root) :
          /\ ~isLeaf(n)
          /\ ~isLeaf(n.child[1])
          /\ ~isLeaf(n.child[2])
    /\ Cardinality(ImageLeaves(node_root)) >= 2
    /\ \E l \in Leaves(node_root) : l.image = None

\* The leaves of a tree that hold no image, as nodes.
EmptyLeaves(node) == {n \in Nodes(node) : isLeaf(n) /\ n.image = None}

\* C21: insert on an empty leaf returns a placement if and only if the image
\* fits, that is image.width <= rect.width and image.height <= rect.height;
\* when the image does not fit it returns None without creating children.
C21_PlacedIffFits ==
    \A n \in EmptyLeaves(node_root) : \A size \in Sizes :
        LET call == insertInPlace(n, Image(size[1], size[2], 0), Key(0))
            fitting == size[1] <= n.rect.width /\ size[2] <= n.rect.height
        IN  /\ call.ret # None <=> fitting
            /\ ~fitting => call.self = n /\ isLeaf(call.self)

\* An empty leaf below the root that one image size fits with room in one
\* direction only, and that another image size does not fit.
C21_Witness ==
    \E n \in EmptyLeaves(node_root) :
        /\ n # node_root
        /\ \E size \in Sizes : size[1] = n.rect.width /\ size[2] < n.rect.height
        /\ \E size \in Sizes : size[1] > n.rect.width /\ size[2] <= n.rect.height

\* The image sizes that fit the rectangle r, but not perfectly.
LooseSizes(r) ==
    {size \in Sizes : /\ size[1] <= r.width /\ size[2] <= r.height
                      /\ size # <<r.width, r.height>>}

\* C22: when an image fits an empty leaf but not perfectly, the leaf is split
\* into exactly two children by dw = rect.width - image.width and
\* dh = rect.height - image.height: if dw >= dh, child A is (left, top,
\* left + image.width, bottom) and child B is (left + image.width + 1, top,
\* right, bottom); otherwise child A is (left, top, right,
\* top + image.height) and child B is (left, top + image.height + 1, right,
\* bottom).
C22_SplitRule ==
    \A n \in EmptyLeaves(node_root) : \A size \in LooseSizes(n.rect) :
        LET call == insertInPlace(n, Image(size[1], size[2], 0), Key(0))
            r == n.rect
            dw == r.width - size[1]
            dh == r.height - size[2]
            A == call.self.child[1]
            B == call.self.child[2]
        IN  /\ Len(call.self.child) = 2
            /\ A # None /\ B # None
            /\ call.self.rect = r
            /\ dw >= dh =>
                  /\ A.rect = Rectangle(r.left, r.top, r.left + size[1], r.bottom)
                  /\ B.rect = Rectangle(r.left + size[1] + 1, r.top,
                                        r.right, r.bottom)
            /\ ~(dw >= dh) =>
                  /\ A.rect = Rectangle(r.left, r.top, r.right, r.top + size[2])
                  /\ B.rect = Rectangle(r.left, r.top + size[2] + 1,
                                        r.right, r.bottom)

\* An empty leaf below the root that one image size splits with dw = dh > 0,
\* another with dw > dh and another with dw < dh.
C22_Witness ==
    \E n \in EmptyLeaves(node_root) :
        /\ n # node_root
        /\ \E size \in LooseSizes(n.rect) :
              n.rect.width - size[1] = n.rect.height - size[2]
        /\ \E size \in LooseSizes(n.rect) :
              n.rect.width - size[1] > n.rect.height - size[2]
        /\ \E size \in LooseSizes(n.rect) :
              n.rect.width - size[1] < n.rect.height - size[2]

\* C23: after a split the recursive insert of the image into child A always
\* succeeds (the return value line 163 does not look at is never None): the
\* image is stored in a leaf under child A after at most two levels of
\* splitting, and child B is left an empty leaf, with no image and no
\* children.
C23_FirstChildTakesImage ==
    \A n \in EmptyLeaves(node_root) : \A size \in LooseSizes(n.rect) :
        LET img == Image(size[1], size[2], 0)
            rects == SplitRects(n.rect, size[1], size[2])
            inner == insertInPlace(Node(rects[1]), img, Key(0))
            call == insertInPlace(n, img, Key(0))
            A == call.self.child[1]
            B == call.self.child[2]
            holder == IF isLeaf(A) THEN A ELSE A.child[1]
        IN  /\ inner.ret # None
            /\ A = inner.ret
            /\ isLeaf(holder)
            /\ holder.image = img /\ holder.building_id = Key(0)
            /\ ~isLeaf(A) => isLeaf(A.child[2]) /\ A.child[2].image = None
            /\ B = Node(rects[2])
            /\ isLeaf(B) /\ B.image = None /\ B.building_id = None

\* An empty leaf below the root that one image size splits once (child A is
\* the leaf of the image) and another splits twice.
C23_Witness ==
    \E n \in EmptyLeaves(node_root) :
        /\ n # node_root
        /\ \E size \in LooseSizes(n.rect) :
              size[1] = n.rect.width \/ size[2] = n.rect.height
        /\ \E size \in LooseSizes(n.rect) :
              size[1] < n.rect.width /\ size[2] < n.rect.height

\* The nodes of a tree that have children.
InternalNodes(node) == {n \in Nodes(node) : ~isLeaf(n)}

\* C24: insert on an internal node tries the first child, and the second
\* child only if the insert on the first returned no placement; if both fail
\* it returns None and the whole subtree under the node (structure,
\* rectangles, images, ids) is unchanged.
C24_InternalNode ==
    \A n \in InternalNodes(node_root) : \A size \in Sizes :
        LET img == Image(size[1], size[2], 0)
            call == insertInPlace(n, img, Key(0))
            first == insertInPlace(n.child[1], img, Key(0))
            second == insertInPlace(n.child[2], img, Key(0))
        IN  /\ first.ret # None =>
                  /\ call.ret # None
                  /\ call.self.child[1] = first.ret
                  /\ call.self.child[2] = n.child[2]
            /\ first.ret = None /\ second.ret # None =>
                  /\ call.ret # None
                  /\ call.self.child[1] = n.child[1]
                  /\ call.self.child[2] = second.ret
            /\ first.ret = None /\ second.ret = None =>
                  /\ call.ret = None
                  /\ call.self = n
            /\ call.self.rect = n.rect
            /\ call.self.image = n.image
            /\ call.self.building_id = n.building_id

\* A tree whose root has children, which takes one image size in its first
\* child, another in its second child only, and a third in neither.
C24_Witness ==
    /\ ~isLeaf(node_root)
    /\ \E size \in Sizes :
          insertInPlace(node_root.child[1], Image(size[1], size[2], 0),
                        Key(0)).ret # None
    /\ \E size \in Sizes :
          /\ insertInPlace(node_root.child[1], Image(size[1], size[2], 0),
                           Key(0)).ret = None
          /\ insertInPlace(node_root.child[2], Image(size[1], size[2], 0),
                           Key(0)).ret # None
    /\ \E size \in Sizes :
          insertInPlace(node_root, Image(size[1], size[2], 0), Key(0)).ret = None

\* C25: when an insertion fails during a pass, the packer discards the tree
\* built so far and restarts from a fresh empty root on the doubled canvas,
\* inserting the whole list again from its first element: the tree of a pass
\* is the one that inserting the first images of the list into a fresh root
\* over the canvas of that pass gives, and the tree returned holds only the
\* nodes and placements of the last pass.
C25_FreshRestart ==
    /\ pc = "while" /\ canvases # <<>> =>
          /\ node_root = None
          /\ rect = GrownRect(canvases[Len(canvases)])
    /\ pc = "for" =>
          /\ rect = canvases[Len(canvases)]
          /\ node_root = InsertAll(Node(rect),
                                  SubSeq(textures_sorted, 1, idx - 1), 1)
    /\ pc = "done" =>
          node_root = InsertAll(Node(canvases[Len(canvases)]), textures_sorted, 1)

\* A pass that failed at its third insertion, after two images were placed,
\* and the pass after it with its first image placed again.
C25_Witness ==
    /\ pc = "for"
    /\ Len(canvases) = 2
    /\ idx = 2
    /\ Len(textures_sorted) = 3
    /\ InsertAll(Node(canvases[1]), SubSeq(textures_sorted, 1, 2), 1) # None
    /\ InsertAll(Node(canvases[1]), textures_sorted, 1) = None


\* C26: in retrieve_geometries a row whose geometry is NULL or has no
\* triangles ends the run of the tile: the fetch loop never goes beyond the
\* first such row and stops on it, every row before it has its geometry
\* stored and the row itself has none, no canvas is chosen and no tree is
\* built, no atlas image is created, and the run never reaches the lines
\* that save the atlas and return the arrays.
BadRows == {i \in 1..Len(fetched.rows) : fetched.rows[i].geom # "triangles"}

C27_ImageOnPerfectLeaf ==
    \A n \in Nodes(node_root) :
        /\ n.image # None =>
              /\ isLeaf(n)
              /\ n.rect.width = n.image.size[1]
              /\ n.rect.height = n.image.size[2]
        /\ (n.building_id # None) <=> (n.image # None)
        /\ ~isLeaf(n) => n.image = None /\ n.building_id = None

C27_Witness ==
    /\ ~isLeaf(node_root)
    /\ Cardinality(ImageLeaves(node_root)) >= 2
    /\ \E l \in ImageLeaves(node_root) : l.rect.left > 0 /\ Len(l.path) >= 3
    /\ \E l \in Leaves(node_root) : l.image = None


\* C28: every rectangle of the tree lies inside the rectangle of the root,
\* the canvas (0, 0, side, side), and so every UV component that is in
\* [0, 1] before createAtlasImage is in [0, 1] after updateUv has remapped
\* it against the canvas.
InUnit(a) == a.m >= 0 /\ a.m <= Pow2(a.e)

C28_InsideCanvas ==
    /\ node_root # None =>
          LET side == canvases[Len(canvases)].width
          IN  /\ node_root.rect = Rectangle(0, 0, side, side)
              /\ \A n \in Nodes(node_root) :
                    /\ 0 <= n.rect.left /\ n.rect.left <= n.rect.right
                    /\ n.rect.right <= side
                    /\ 0 <= n.rect.top /\ n.rect.top <= n.rect.bottom
                    /\ n.rect.bottom <= side
    /\ pc = "saved" =>
          \A k \in DOMAIN objects :
              \A i \in 1..Len(objects[k]) : \A y \in 1..3 : \A c \in 1..2 :
                  InUnit(objects0[k][i][y][c]) => InUnit(objects[k][i][y][c])

\* An image placed against the right side of the canvas, away from its left
\* side, with a UV of 1 remapped to 1.
C28_Witness ==
    /\ pc = "saved"
    /\ \E l \in ImageLeaves(node_root) :
          /\ l.rect.left > 0
          /\ l.rect.right = node_root.rect.right
          /\ \E i \in 1..Len(objects[l.building_id]) : \E y \in 1..3 :
                /\ objects0[l.building_id][i][y][1] = FloatOfInt(1)
                /\ objects[l.building_id][i][y][1] = FloatOfInt(1)


\* C29: a call of insert that returns a node changes no earlier placement:
\* every leaf that held an image before the call is a leaf at the same
\* place in the tree after it, with the same rectangle, image and
\* building_id; the rectangle of the node the call was made on is unchanged;
\* and what the call returns is that node. The call adds exactly one
\* placement, that of its image.
C29_InsertKeepsPlacements ==
    \A n \in Nodes(node_root) : \A size \in Sizes :
        LET img == Image(size[1], size[2], 0)
            call == insertInPlace(n, img, Key(0))
        IN  call.ret # None =>
                /\ ImageLeaves(n) \subseteq ImageLeaves(call.self)
                /\ \A l \in ImageLeaves(call.self) \ ImageLeaves(n) :
                      l.image = img /\ l.building_id = Key(0)
                /\ Cardinality(ImageLeaves(call.self)) =
                      Cardinality(ImageLeaves(n)) + 1
                /\ call.self.rect = n.rect
                /\ call.ret = call.self

\* A tree with two placements on which a further call succeeds in a leaf
\* that it has to split.
C29_Witness ==
    /\ Cardinality(ImageLeaves(node_root)) >= 2
    /\ \E size \in Sizes :
          LET call == insertInPlace(node_root, Image(size[1], size[2], 0), Key(0))
          IN  /\ call.ret # None
              /\ Cardinality(Nodes(call.self)) > Cardinality(Nodes(node_root))


\* C30: one fillAtlasImage traversal of the tree computeAtlasTree returned
\* does one paste and one updateUv for each leaf that holds an image and
\* none for any other node: there are as many pastes as image leaves, one
\* per building_id, at the leaf's place and of its image's size; the pixels
\* outside the images stay black; the UV list of each object is the list
\* given with updateUv applied to it once. The rewrite is not idempotent: a
\* second application would change the list again, for every leaf but one
\* whose image fills the whole canvas, for which updateUv is the identity.
Once(l, uvs, arith) == updateUv(l, uvs, l.image, [size |-> atlasImg.size], arith)

C30_FillOncePerImageLeaf ==
    pc = "saved" =>
        /\ Len(pastes) = Cardinality(ImageLeaves(node_root))
        /\ \A l \in ImageLeaves(node_root) :
              /\ Cardinality({j \in 1..Len(pastes) :
                                 pastes[j].building_id = l.building_id}) = 1
              /\ \E arith \in {"float64", "float32"} :
                    objects[l.building_id] = Once(l, objects0[l.building_id], arith)
              /\ \A arith \in {"float64", "float32"} :
                    (Once(l, objects[l.building_id], arith) = objects[l.building_id])
                        <=> l.rect = node_root.rect
        /\ \A j \in 1..Len(pastes) :
              \E l \in ImageLeaves(node_root) :
                  /\ pastes[j].building_id = l.building_id
                  /\ pastes[j].box = <<l.rect.left, l.rect.top>>
                  /\ pastes[j].size = l.image.size
        /\ \A pos \in DOMAIN atlasImg.px :
              (\A l \in ImageLeaves(node_root) : ~Holds(l.rect, pos[1], pos[2]))
                  => atlasImg.px[pos] = Black
        /\ DOMAIN objects = DOMAIN objects0
        /\ \A k \in DOMAIN objects :
              (\A l \in ImageLeaves(node_root) : l.building_id # k)
                  => objects[k] = objects0[k]

\* C30, as claimed: one paste and one updateUv for each leaf that holds an
\* image, and a second application of updateUv would change the UVs of
\* every object again.
C30_SecondRewriteChanges ==
    pc = "saved" =>
        /\ Len(pastes) = Cardinality(ImageLeaves(node_root))
        /\ \A l \in ImageLeaves(node_root) :
              /\ Cardinality({j \in 1..Len(pastes) :
                                 pastes[j].building_id = l.building_id}) = 1
              /\ \E arith \in {"float64", "float32"} :
                    objects[l.building_id] = Once(l, objects0[l.building_id], arith)
              /\ \A arith \in {"float64", "float32"} :
                    Once(l, objects[l.building_id], arith) # objects[l.building_id]

\* An atlas of two images over a tree with internal nodes and empty leaves,
\* with black pixels left, where a second updateUv would change the UVs of
\* both objects.
C30_Witness ==
    /\ pc = "saved"
    /\ Len(pastes) = 2
    /\ Cardinality(Leaves(node_root)) > 3
    /\ \E l \in Leaves(node_root) :
          l.image = None /\ l.rect.width > 0 /\ l.rect.height > 0
    /\ \E pos \in DOMAIN atlasImg.px : atlasImg.px[pos] = Black
    /\ \A l \in ImageLeaves(node_root) :
          Once(l, objects[l.building_id], "float32") # objects[l.building_id]

====
